---- MODULE Spec2Model ----
(***************************************************************************)
(* Model of the todo REST backend: package models (the todo store and its  *)
(* CSV persistence) and package controllers (the HTTP handlers).           *)
(*                                                                         *)
(* Go strings are modelled as sequences of one-character strings, so that  *)
(* strconv.Itoa / strconv.Atoi / strconv.FormatBool / strconv.ParseBool    *)
(* and the CSV reader's line handling are computed, not assumed.           *)
(***************************************************************************)
EXTENDS Integers, Sequences, FiniteSets, TLC

\* ------------------------------------------------------------------ bounds

\* Largest number of todos the store grows to in Spec (restarts and data.csv).
MaxTodos == 2

\* Largest number of todos the store grows to in SpecStore (one in-memory run).
MaxStoreTodos == 3

\* Number of POST /todos requests in flight at once in SpecConc.
MaxRequests == 2

\* ------------------------------------------------------------------ strings

DigitChars == <<"0", "1", "2", "3", "4", "5", "6", "7", "8", "9">>

DigitValue(c) == CHOOSE d \in 0..9 : DigitChars[d + 1] = c

IsDigit(c) == \E d \in 0..9 : DigitChars[d + 1] = c

\* strconv.Itoa for n >= 0 (len() of a map is never negative).
RECURSIVE Itoa(_)
Itoa(n) ==
    IF n < 10 THEN <<DigitChars[n + 1]>>
    ELSE Itoa(n \div 10) \o <<DigitChars[(n % 10) + 1]>>

RECURSIVE DigitsValue(_)
DigitsValue(s) ==
    IF s = <<>> THEN 0
    ELSE 10 * DigitsValue(SubSeq(s, 1, Len(s) - 1)) + DigitValue(s[Len(s)])

\* strconv.Atoi with the error dropped (leftValueAsInt, _ := strconv.Atoi(..)):
\* an optional sign followed by digits; anything else yields 0.
Atoi(s) ==
    LET signed == Len(s) > 0 /\ s[1] \in {"+", "-"}
        digits == IF signed THEN Tail(s) ELSE s
    IN  IF digits = <<>> \/ \E i \in 1..Len(digits) : ~IsDigit(digits[i]) THEN 0
        ELSE IF signed /\ s[1] = "-" THEN 0 - DigitsValue(digits)
        ELSE DigitsValue(digits)

\* strconv.FormatBool
FormatBool(b) == IF b THEN <<"t", "r", "u", "e">> ELSE <<"f", "a", "l", "s", "e">>

\* strconv.ParseBool with the error dropped: the accepted spellings of true;
\* every other input (the spellings of false, and errors) yields false.
ParseBoolTrue ==
    { <<"1">>, <<"t">>, <<"T">>, <<"T", "R", "U", "E">>,
      <<"t", "r", "u", "e">>, <<"T", "r", "u", "e">> }

ToBool(info) == info \in ParseBoolTrue

\* ------------------------------------------------------------------ Todo

NewTodo(id, title, description, terminated) ==
    [Id |-> id, Title |-> title, Description |-> description, Terminated |-> terminated]

\* Go's zero value Todo{}
ZeroTodo == NewTodo(<<>>, <<>>, <<>>, FALSE)

Serialize(t) == <<t.Id, t.Title, t.Description, FormatBool(t.Terminated)>>

parseTodoData(rec) == NewTodo(rec[1], rec[2], rec[3], ToBool(rec[4]))

\* ------------------------------------------------------------------ store

\* A Go map value: nil, or a (possibly empty) table from key to Todo.
NilMap == [nil |-> TRUE, items |-> <<>>]

MakeMap == [nil |-> FALSE, items |-> <<>>]

Keys(m) == DOMAIN m.items

MapLen(m) == Cardinality(Keys(m))

\* m[k] = v on a non-nil map
MapPut(items, k, v) == [x \in (DOMAIN items) \cup {k} |-> IF x = k THEN v ELSE items[x]]

\* The orders in which `range` may visit the entries of a map: Go leaves the
\* iteration order unspecified, so every enumeration of the keys is possible.
RangeOrders(m) ==
    {o \in [1..MapLen(m) -> Keys(m)] : \A i, j \in 1..MapLen(m) : i # j => o[i] # o[j]}

\* TodoStore(): clone of the store (a fresh non-nil map with the same entries).
clone(m) == [nil |-> FALSE, items |-> m.items]

\* AddTodo, first statement: indexAsInt := len(todoStore).
AddTodoIndex(store) == MapLen(store)

\* AddTodoInsert with a fault: the index is taken from the store at the moment of
\* the insert (as if AddTodo ran under a lock), not the one read before.
AddTodoInsertFreshIndex(store, indexAsInt, todo) ==
    LET indexAsString == Itoa(MapLen(store))
        stored == [todo EXCEPT !.Id = indexAsString]
    IN  IF store.nil
        THEN [panic |-> TRUE, store |-> store, todo |-> ZeroTodo]
        ELSE [panic |-> FALSE,
              store |-> [nil |-> FALSE, items |-> MapPut(store.items, indexAsString, stored)],
              todo |-> stored]

\* AddTodo, the rest: the id is set from the index read before and the todo is
\* stored under it; the assignment to a nil map panics ("assignment to entry in
\* nil map"). Result: the store, the returned todo, and whether it panicked.
AddTodoInsert(store, indexAsInt, todo) ==
    LET indexAsString == Itoa(indexAsInt)
        stored == [todo EXCEPT !.Id = indexAsString]
    IN  IF store.nil
        THEN [panic |-> TRUE, store |-> store, todo |-> ZeroTodo]
        ELSE [panic |-> FALSE,
              store |-> [nil |-> FALSE, items |-> MapPut(store.items, indexAsString, stored)],
              todo |-> stored]

\* AddTodo run without interruption.
AddTodo(store, todo) == AddTodoInsert(store, AddTodoIndex(store), todo)

\* UpdateTodo with a fault: the todo is stored with the Id the caller supplied.
UpdateTodoKeepsCallerId(store, id, todo) ==
    IF id \notin Keys(store)
    THEN [ok |-> FALSE, store |-> store, todo |-> ZeroTodo]
    ELSE [ok |-> TRUE,
          store |-> [nil |-> store.nil, items |-> MapPut(store.items, id, todo)],
          todo |-> todo]

UpdateTodo(store, id, todo) ==
    IF id \notin Keys(store)
    THEN [ok |-> FALSE, store |-> store, todo |-> ZeroTodo]
    ELSE LET forced == IF id # todo.Id THEN [todo EXCEPT !.Id = id] ELSE todo
         IN  [ok |-> TRUE,
              store |-> [nil |-> store.nil, items |-> MapPut(store.items, id, forced)],
              todo |-> forced]

\* The loop of RemoveTodo over the entries in the order `order`, from position i,
\* with the temp store and the running index built so far.
RECURSIVE RemoveLoop(_, _, _, _, _, _)
RemoveLoop(items, id, order, i, temp, index) ==
    IF i > Len(order) THEN temp
    ELSE LET currentTodo == items[order[i]]
         IN  IF id # currentTodo.Id
             THEN RemoveLoop(items, id, order, i + 1,
                             MapPut(temp, Itoa(index), [currentTodo EXCEPT !.Id = Itoa(index)]),
                             index + 1)
             ELSE RemoveLoop(items, id, order, i + 1, temp, index)

\* The keys in ascending numeric order.
AscendingKeys(m) ==
    CHOOSE o \in RangeOrders(m) : \A i, j \in 1..Len(o) : i < j => Atoi(o[i]) < Atoi(o[j])

\* RemoveTodo with a fault: the survivors are renumbered in ascending key order,
\* whatever order range visits them in.
RemoveTodoInKeyOrder(store, id, order) ==
    IF id \notin Keys(store)
    THEN [ok |-> FALSE, store |-> store]
    ELSE [ok |-> TRUE,
          store |-> [nil |-> FALSE,
                     items |-> RemoveLoop(store.items, id, AscendingKeys(store), 1, <<>>, 0)]]

\* RemoveTodo, `order` being the order in which range visits todoStore.
RemoveTodo(store, id, order) ==
    IF id \notin Keys(store)
    THEN [ok |-> FALSE, store |-> store]
    ELSE [ok |-> TRUE,
          store |-> [nil |-> FALSE, items |-> RemoveLoop(store.items, id, order, 1, <<>>, 0)]]

DeleteAllTodosModel == MakeMap

\* ------------------------------------------------------------------ file

\* data.csv: absent, or the records handed to csv.Writer.Write, in order.
NoFile == [exists |-> FALSE, rows |-> <<>>]

\* What csv.Reader does to a field it reads back: "\r\n" inside a (quoted)
\* field is returned as "\n" (encoding/csv: "Carriage returns before newline
\* characters are silently removed"); csv.Writer writes the field unchanged.
RECURSIVE csvReadField(_)
csvReadField(s) ==
    IF Len(s) = 0 THEN <<>>
    ELSE IF Len(s) >= 2 /\ s[1] = "\r" /\ s[2] = "\n" THEN csvReadField(Tail(s))
    ELSE <<s[1]>> \o csvReadField(Tail(s))

csvRead(row) == [i \in 1..Len(row) |-> csvReadField(row[i])]

\* getDataFromFile: nil (with an error) when the file cannot be opened,
\* otherwise the rows keyed by their row index.
getDataFromFile(f, openOk) ==
    IF ~f.exists \/ ~openOk THEN NilMap
    ELSE [nil |-> FALSE,
          items |-> [k \in {Itoa(rowIndex) : rowIndex \in 0..(Len(f.rows) - 1)} |->
                        LET rowIndex == CHOOSE r \in 0..(Len(f.rows) - 1) : Itoa(r) = k
                        IN  parseTodoData(csvRead(f.rows[rowIndex + 1]))]]

\* Initialize: todoStore, _ = getDataFromFile() when persistence is on.
Initialize(store, persistence, f, openOk) ==
    IF persistence THEN getDataFromFile(f, openOk) ELSE store

\* UpdateDataInFile: the file after the call, `order` being the order in which
\* range visits todoStore.
UpdateDataInFile(store, persistence, f, order) ==
    IF ~persistence THEN f
    ELSE [exists |-> TRUE, rows |-> [i \in 1..Len(order) |-> Serialize(store.items[order[i]])]]

\* ------------------------------------------------------------------ requests

\* The todos a client sends as JSON: a plain one, and one whose title holds a
\* CR LF line break and whose id names another record.
BodyTodos ==
    { NewTodo(<<>>, <<"a">>, <<"d">>, FALSE),
      NewTodo(<<"1">>, <<"b", "\r", "\n">>, <<"d">>, TRUE) }

\* A request body: absent (request.Body == nil), not valid JSON, or a JSON Todo.
Bodies ==
    {[kind |-> "nil", todo |-> ZeroTodo], [kind |-> "malformed", todo |-> ZeroTodo]}
        \cup {[kind |-> "json", todo |-> t] : t \in BodyTodos}

\* The :id path parameters a client asks for, the store holding at most max
\* todos (the last two are never keys of the store).
ReqIds(max) == {Itoa(i) : i \in 0..max} \cup {<<"x">>}

decodeTodo(body) ==
    IF body.kind = "json" THEN [err |-> FALSE, todo |-> body.todo]
    ELSE [err |-> TRUE, todo |-> ZeroTodo]

\* ------------------------------------------------------------------ handlers
\* Each handler as a function of the store and the request: the response
\* (status 0 = the handler panicked and no response was written), the store
\* afterwards, and whether UpdateDataInFile was reached.

Response(status, title, data, store, persist) ==
    [status |-> status, title |-> title, data |-> data, store |-> store, persist |-> persist]

handleTodoIdNotFound(store) == Response(404, "Record Not Found", ZeroTodo, store, FALSE)

handleTodoNotProperlyTransmitted(store) == Response(400, "Invalid Body", ZeroTodo, store, FALSE)

handleTodoNotProperlyTransmittedGeneral(store, title) ==
    Response(400, title, ZeroTodo, store, FALSE)

\* The slice TodosGet builds by ranging over the clone in the order `order`.
TodosGetSlice(store, order) == [i \in 1..Len(order) |-> clone(store).items[order[i]]]

IdLess(a, b) == Atoi(a.Id) < Atoi(b.Id)

\* sort.Slice is not stable: every rearrangement of the slice in which no
\* element is followed by a smaller one is a possible result.
sortTodosAfterIdAscending(todos) ==
    LET n == Len(todos)
        perms == {p \in [1..n -> 1..n] : \A i, j \in 1..n : i # j => p[i] # p[j]}
    IN  {[i \in 1..n |-> todos[p[i]]] : p \in
            {q \in perms : \A i, j \in 1..n : i < j => ~IdLess(todos[q[j]], todos[q[i]])}}

TodoGetById(store, id) ==
    IF id \notin Keys(clone(store)) THEN handleTodoIdNotFound(store)
    ELSE Response(200, "", clone(store).items[id], store, FALSE)

TodoPost(store, body) ==
    LET d == decodeTodo(body)
        a == AddTodo(store, d.todo)
    IN  IF d.err THEN handleTodoNotProperlyTransmitted(store)
        ELSE IF a.panic THEN Response(0, "panic", ZeroTodo, store, FALSE)
        ELSE Response(201, "", a.todo, a.store, TRUE)

\* TodoPut with a fault: the body is decoded before the id is looked up.
TodoPutDecodesFirst(store, id, body) ==
    LET d == decodeTodo(body)
        u == UpdateTodo(store, id, d.todo)
    IN  IF d.err THEN handleTodoNotProperlyTransmitted(store)
        ELSE IF id \notin Keys(clone(store)) THEN handleTodoIdNotFound(store)
        ELSE IF ~u.ok
             THEN handleTodoNotProperlyTransmittedGeneral(store, "Update data model failed")
        ELSE Response(200, "", u.todo, u.store, TRUE)

TodoPut(store, id, body) ==
    LET d == decodeTodo(body)
        u == UpdateTodo(store, id, d.todo)
    IN  IF id \notin Keys(clone(store)) THEN handleTodoIdNotFound(store)
        ELSE IF d.err THEN handleTodoNotProperlyTransmitted(store)
        ELSE IF ~u.ok
             THEN handleTodoNotProperlyTransmittedGeneral(store, "Update data model failed")
        ELSE Response(200, "", u.todo, u.store, TRUE)

TodoDelete(store, id, order) ==
    IF id \notin Keys(clone(store)) THEN handleTodoIdNotFound(store)
    ELSE Response(200, "", ZeroTodo, RemoveTodo(store, id, order).store, TRUE)

DeleteAllTodos(store) == Response(200, "", ZeroTodo, DeleteAllTodosModel, TRUE)

\* ------------------------------------------------------------------ state

VARIABLES
    running,          \* the process is up (Run has been called and serves requests)
    filePersistence,  \* models.filePersistence
    todoStore,        \* models.todoStore
    file,             \* data.csv
    saved,            \* history: the records todoStore held when data.csv was last written
    last,             \* history: the last operation, its request, response and pre-state
    req               \* the POST /todos requests in flight (SpecConc): where each handler is

vars == <<running, filePersistence, todoStore, file, saved, last, req>>

Procs == 1..MaxRequests

IdleReq == [pc |-> "idle", todo |-> ZeroTodo, index |-> 0, status |-> 0, data |-> ZeroTodo]

Records(m) == {m.items[k] : k \in Keys(m)}

Event(op, id, body, resp, list) ==
    [op |-> op, id |-> id, body |-> body, status |-> resp.status, title |-> resp.title,
     data |-> resp.data, list |-> list, prev |-> todoStore, prevFile |-> file,
     persistence |-> filePersistence]

NoBody == [kind |-> "nil", todo |-> ZeroTodo]

Init ==
    /\ running = FALSE
    /\ filePersistence = FALSE
    /\ todoStore = MakeMap
    /\ file = NoFile
    /\ saved = {}
    /\ last = [op |-> "none", id |-> <<>>, body |-> NoBody, status |-> 0, title |-> "",
               data |-> ZeroTodo, list |-> <<>>, prev |-> MakeMap, prevFile |-> NoFile,
               persistence |-> FALSE]
    /\ req = [p \in Procs |-> IdleReq]

\* Run(enablePersistence): set the flag, Initialize, then serve. openOk is
\* whether os.Open succeeds on an existing data.csv.
Run(enablePersistence, openOk) ==
    /\ ~running
    /\ running' = TRUE
    /\ filePersistence' = enablePersistence
    /\ todoStore' = Initialize(todoStore, enablePersistence, file, openOk)
    /\ last' = [Event("Run", <<>>, NoBody, Response(0, "", ZeroTodo, todoStore, FALSE), <<>>)
                   EXCEPT !.persistence = enablePersistence]
    /\ UNCHANGED <<file, saved, req>>

\* The process ends; a later Run starts from the package's initial values.
Exit ==
    /\ running
    /\ running' = FALSE
    /\ filePersistence' = FALSE
    /\ todoStore' = MakeMap
    /\ last' = Event("Exit", <<>>, NoBody, Response(0, "", ZeroTodo, todoStore, FALSE), <<>>)
    /\ UNCHANGED <<file, saved, req>>

\* The tail of the mutating handlers: the response is written, then
\* UpdateDataInFile rewrites data.csv from the new store.
Persist(resp) ==
    IF resp.persist /\ filePersistence
    THEN /\ \E order \in RangeOrders(resp.store) :
                file' = UpdateDataInFile(resp.store, filePersistence, file, order)
         /\ saved' = Records(resp.store)
    ELSE UNCHANGED <<file, saved>>

ServeTodosGet ==
    /\ running
    /\ \E order \in RangeOrders(clone(todoStore)) :
         \E sortedTodos \in sortTodosAfterIdAscending(TodosGetSlice(todoStore, order)) :
            last' = Event("TodosGet", <<>>, NoBody,
                          Response(200, "", ZeroTodo, todoStore, FALSE), sortedTodos)
    /\ UNCHANGED <<running, filePersistence, todoStore, file, saved, req>>

ServeTodoGetById(id) ==
    /\ running
    /\ last' = Event("TodoGetById", id, NoBody, TodoGetById(todoStore, id), <<>>)
    /\ UNCHANGED <<running, filePersistence, todoStore, file, saved, req>>

ServeTodoPost(body, max) ==
    /\ running
    /\ MapLen(todoStore) < max
    /\ LET resp == TodoPost(todoStore, body)
       IN  /\ todoStore' = resp.store
           /\ last' = Event("TodoPost", <<>>, body, resp, <<>>)
           /\ Persist(resp)
    /\ UNCHANGED <<running, filePersistence, req>>

ServeTodoPut(id, body) ==
    /\ running
    /\ LET resp == TodoPut(todoStore, id, body)
       IN  /\ todoStore' = resp.store
           /\ last' = Event("TodoPut", id, body, resp, <<>>)
           /\ Persist(resp)
    /\ UNCHANGED <<running, filePersistence, req>>

ServeTodoDelete(id) ==
    /\ running
    /\ \E order \in RangeOrders(todoStore) :
         LET resp == TodoDelete(todoStore, id, order)
         IN  /\ todoStore' = resp.store
             /\ last' = Event("TodoDelete", id, NoBody, resp, <<>>)
             /\ Persist(resp)
    /\ UNCHANGED <<running, filePersistence, req>>

ServeDeleteAllTodos ==
    /\ running
    /\ LET resp == DeleteAllTodos(todoStore)
       IN  /\ todoStore' = resp.store
           /\ last' = Event("DeleteAllTodos", <<>>, NoBody, resp, <<>>)
           /\ Persist(resp)
    /\ UNCHANGED <<running, filePersistence, req>>

Serve(max) ==
    \/ ServeTodosGet
    \/ \E id \in ReqIds(max) : ServeTodoGetById(id)
    \/ \E body \in Bodies : ServeTodoPost(body, max)
    \/ \E id \in ReqIds(max), body \in Bodies : ServeTodoPut(id, body)
    \/ \E id \in ReqIds(max) : ServeTodoDelete(id)
    \/ ServeDeleteAllTodos

Next ==
    \/ \E enablePersistence, openOk \in BOOLEAN : Run(enablePersistence, openOk)
    \/ Exit
    \/ Serve(MaxTodos)

\* The program started and stopped any number of times, with or without
\* persistence, requests served one at a time.
Spec == Init /\ [][Next]_vars

\* One run without persistence, Run(false), serving requests one at a time.
InitStore ==
    /\ running = TRUE
    /\ filePersistence = FALSE
    /\ todoStore = MakeMap
    /\ file = NoFile
    /\ saved = {}
    /\ last = [op |-> "Run", id |-> <<>>, body |-> NoBody, status |-> 0, title |-> "",
               data |-> ZeroTodo, list |-> <<>>, prev |-> MakeMap, prevFile |-> NoFile,
               persistence |-> FALSE]
    /\ req = [p \in Procs |-> IdleReq]

NextStore == Serve(MaxStoreTodos)

SpecStore == InitStore /\ [][NextStore]_vars

\* ------------------------------------------------------------------ concurrency
\* net/http runs each request's handler in a goroutine of its own and the
\* store has no lock, so the statements of concurrent TodoPost calls interleave.

\* TodoPost up to decodeTodo: 400 on a decode error.
PostDecode(p, body) ==
    /\ running /\ req[p].pc = "idle"
    /\ LET d == decodeTodo(body)
       IN  req' = [req EXCEPT ![p] =
                     IF d.err THEN [@ EXCEPT !.pc = "done", !.status = 400]
                     ELSE [@ EXCEPT !.pc = "decoded", !.todo = d.todo]]
    /\ UNCHANGED <<running, filePersistence, todoStore, file, saved, last>>

\* AddTodo: indexAsInt := len(todoStore)
PostIndex(p) ==
    /\ running /\ req[p].pc = "decoded"
    /\ req' = [req EXCEPT ![p] = [@ EXCEPT !.pc = "indexed", !.index = AddTodoIndex(todoStore)]]
    /\ UNCHANGED <<running, filePersistence, todoStore, file, saved, last>>

\* AddTodo: todo.Id = indexAsString; todoStore[indexAsString] = todo; return todo
PostInsert(p) ==
    /\ running /\ req[p].pc = "indexed"
    /\ LET a == AddTodoInsert(todoStore, req[p].index, req[p].todo)
       IN  /\ todoStore' = a.store
           /\ req' = [req EXCEPT ![p] =
                        IF a.panic THEN [@ EXCEPT !.pc = "done"]
                        ELSE [@ EXCEPT !.pc = "inserted", !.data = a.todo]]
    /\ UNCHANGED <<running, filePersistence, file, saved, last>>

\* TodoPost: WriteHeader(201) and the created record
PostRespond(p) ==
    /\ running /\ req[p].pc = "inserted"
    /\ req' = [req EXCEPT ![p] = [@ EXCEPT !.pc = "responded", !.status = 201]]
    /\ UNCHANGED <<running, filePersistence, todoStore, file, saved, last>>

\* TodoPost: UpdateDataInFile()
PostPersist(p) ==
    /\ running /\ req[p].pc = "responded"
    /\ req' = [req EXCEPT ![p] = [@ EXCEPT !.pc = "done"]]
    /\ Persist(Response(201, "", req[p].data, todoStore, TRUE))
    /\ UNCHANGED <<running, filePersistence, todoStore, last>>

\* Two goroutines about to assign to the map at once: the Go runtime may detect
\* it and end the process ("fatal error: concurrent map writes").
ConcurrentMapWritesFatal ==
    /\ running
    /\ \E p, q \in Procs : p # q /\ req[p].pc = "indexed" /\ req[q].pc = "indexed"
    /\ running' = FALSE
    /\ filePersistence' = FALSE
    /\ todoStore' = MakeMap
    /\ req' = [p \in Procs |-> [req[p] EXCEPT !.pc = "aborted"]]
    /\ UNCHANGED <<file, saved, last>>

\* The server is up with an empty store or one todo in it, without persistence
\* or with it (data.csv then mirrors the store); no request has started.
InitConc ==
    /\ running = TRUE
    /\ filePersistence \in BOOLEAN
    /\ todoStore \in {MakeMap} \cup {AddTodo(MakeMap, t).store : t \in BodyTodos}
    /\ file \in (IF filePersistence
                 THEN {UpdateDataInFile(todoStore, TRUE, NoFile, o) : o \in RangeOrders(todoStore)}
                 ELSE {NoFile})
    /\ saved = (IF filePersistence THEN Records(todoStore) ELSE {})
    /\ last = [op |-> "Run", id |-> <<>>, body |-> NoBody, status |-> 0, title |-> "",
               data |-> ZeroTodo, list |-> <<>>, prev |-> todoStore, prevFile |-> file,
               persistence |-> filePersistence]
    /\ req = [p \in Procs |-> IdleReq]

NextConc ==
    \/ \E p \in Procs, body \in Bodies : PostDecode(p, body)
    \/ \E p \in Procs : PostIndex(p)
    \/ \E p \in Procs : PostInsert(p)
    \/ \E p \in Procs : PostRespond(p)
    \/ \E p \in Procs : PostPersist(p)
    \/ ConcurrentMapWritesFatal

\* Concurrent POST /todos requests, one per goroutine.
SpecConc == InitConc /\ [][NextConc]_vars

\* ------------------------------------------------------------------ claims

Content(t) == <<t.Title, t.Description, t.Terminated>>

\* How many entries of m hold the content c.
CountOf(m, c) == Cardinality({k \in Keys(m) : Content(m.items[k]) = c})

ContiguousKeys(n) == {Itoa(i) : i \in 0..(n - 1)}

WellKeyed(m) == \A k \in Keys(m) : m.items[k].Id = k

\* C1: AddTodo on a store of n records gives the new record the Id Itoa(n),
\* stores it under that key, returns the stored record (the input with only Id
\* replaced), makes the count n+1 and leaves the earlier records as they were.
C1_AddTodoAssignsCount ==
    (last.op = "TodoPost" /\ last.body.kind = "json") =>
        LET n == MapLen(last.prev)
        IN  /\ last.data = [last.body.todo EXCEPT !.Id = Itoa(n)]
            /\ Itoa(n) \in Keys(todoStore)
            /\ todoStore.items[Itoa(n)] = last.data
            /\ MapLen(todoStore) = n + 1
            /\ \A k \in Keys(last.prev) :
                  k \in Keys(todoStore) /\ todoStore.items[k] = last.prev.items[k]

\* C2: every record is stored under the key equal to its own Id, no two records
\* share an Id, and a 200 response of GET /todos/:id carries the requested id.
C2_KeyEqualsId ==
    /\ WellKeyed(todoStore)
    /\ \A j, k \in Keys(todoStore) :
          j # k => todoStore.items[j].Id # todoStore.items[k].Id
    /\ (last.op = "TodoGetById" /\ last.status = 200) => last.data.Id = last.id

\* C3: removing a present id from n records leaves n-1 records keyed
\* "0".."n-2", each with Id equal to its key, whose contents are those of the
\* prior records other than the one stored under id; removing an absent id
\* returns false and changes nothing.
C3_RemoveRenumbers ==
    /\ \A id \in ReqIds(MaxTodos) \ Keys(todoStore) : \A order \in RangeOrders(todoStore) :
          RemoveTodo(todoStore, id, order) = [ok |-> FALSE, store |-> todoStore]
    /\ (last.op = "TodoDelete" /\ last.id \in Keys(last.prev)) =>
          /\ Keys(todoStore) = ContiguousKeys(MapLen(last.prev) - 1)
          /\ WellKeyed(todoStore)
          /\ \A k \in Keys(last.prev) :
                LET c == Content(last.prev.items[k])
                IN  CountOf(todoStore, c) =
                        CountOf(last.prev, c)
                            - (IF c = Content(last.prev.items[last.id]) THEN 1 ELSE 0)
    /\ (last.op = "TodoDelete" /\ last.id \notin Keys(last.prev)) => todoStore = last.prev

\* C4: UpdateTodo with an absent id returns not-found and leaves the store as
\* it was; with a present id the record under id becomes the given todo with its
\* Id forced to id, that record is returned, and the number of records and every
\* other record stay as they were.
C4_UpdateTodoInPlace ==
    /\ \A id \in ReqIds(MaxStoreTodos) \ Keys(todoStore) : \A t \in BodyTodos :
          UpdateTodo(todoStore, id, t) = [ok |-> FALSE, store |-> todoStore, todo |-> ZeroTodo]
    /\ (last.op = "TodoPut" /\ last.id \notin Keys(last.prev)) => todoStore = last.prev
    /\ (last.op = "TodoPut" /\ last.id \in Keys(last.prev) /\ last.body.kind = "json") =>
          /\ last.status = 200
          /\ last.data = [last.body.todo EXCEPT !.Id = last.id]
          /\ Keys(todoStore) = Keys(last.prev)
          /\ todoStore.items[last.id] = last.data
          /\ \A k \in Keys(last.prev) \ {last.id} : todoStore.items[k] = last.prev.items[k]

\* A PUT replaced a record by a todo whose own Id named another key, in a store
\* holding another record.
C4_Witness ==
    /\ last.op = "TodoPut" /\ last.status = 200
    /\ last.body.todo.Id = <<"1">> /\ last.id = <<"0">>
    /\ MapLen(todoStore) = 2
    /\ last.data # last.prev.items[last.id]

\* C5: POST /todos with a decodable body answers 201 with the created record,
\* which is then in the store; with an undecodable or missing body it answers
\* 400 and leaves the store as it was. This holds in every reachable state,
\* also right after Run(true) found no readable data.csv.
C5_PostCreates ==
    last.op = "TodoPost" =>
        IF last.body.kind = "json"
        THEN /\ last.status = 201
             /\ Content(last.data) = Content(last.body.todo)
             /\ last.data \in Records(todoStore)
        ELSE last.status = 400 /\ todoStore = last.prev

\* C6: GET /todos lists every record of the store exactly once, strictly
\* ascending by the numeric value of Id.
C6_ListSortedById ==
    last.op = "TodosGet" =>
        /\ \E o \in RangeOrders(todoStore) :
              last.list = [i \in 1..Len(o) |-> todoStore.items[o[i]]]
        /\ \A i, j \in 1..Len(last.list) :
              i < j => Atoi(last.list[i].Id) < Atoi(last.list[j].Id)

\* C7: GET, PUT and DELETE of an unknown id answer 404 "Record Not Found" (for
\* PUT whatever the body); PUT of a known id with an undecodable body answers
\* 400; every 400 or 404 leaves the store and data.csv as they were; and PUT
\* never answers "Update data model failed".
C7_ErrorOutcomes ==
    /\ (last.op \in {"TodoGetById", "TodoPut", "TodoDelete"} /\ last.id \notin Keys(last.prev))
          => (last.status = 404 /\ last.title = "Record Not Found")
    /\ (last.op = "TodoPut" /\ last.id \in Keys(last.prev) /\ last.body.kind # "json")
          => (last.status = 400 /\ last.title = "Invalid Body")
    /\ last.status \in {400, 404} => (todoStore = last.prev /\ file = last.prevFile)
    /\ last.title # "Update data model failed"

\* A PUT of an unknown id with an undecodable body was answered 404 while the
\* store held a record and data.csv existed.
C7_Witness ==
    /\ last.op = "TodoPut" /\ last.id \notin Keys(last.prev)
    /\ last.body.kind = "malformed"
    /\ last.status = 404
    /\ MapLen(todoStore) >= 1 /\ filePersistence /\ file.exists

\* C8: parsing the fields Serialize produces gives the todo back, and the
\* records the store holds after Initialize loaded data.csv are the records it
\* held when UpdateDataInFile last wrote the file, one row per record.
C8_PersistenceRoundTrip ==
    /\ \A t \in Records(todoStore) \cup BodyTodos : parseTodoData(Serialize(t)) = t
    /\ (last.op = "Run" /\ last.persistence /\ ~todoStore.nil) =>
          /\ Records(todoStore) = saved
          /\ MapLen(todoStore) = Len(file.rows)

\* The entries RemoveTodo keeps: those whose Id differs from id.
Survivors(m, id) == {k \in Keys(m) : m.items[k].Id # id}

\* Every way of handing the ids "0".."n-1" to the n survivors, one each.
Renumberings(m, id) ==
    LET ids == ContiguousKeys(Cardinality(Survivors(m, id)))
        assignments == {f \in [ids -> Survivors(m, id)] : \A x, y \in ids : x # y => f[x] # f[y]}
    IN  {[nil |-> FALSE, items |-> [x \in ids |-> [m.items[f[x]] EXCEPT !.Id = x]]] :
            f \in assignments}

\* C9: RemoveTodo's renumbering is not stable: for every stored id, every
\* assignment of the ids "0".."n-2" to the survivors is a possible outcome of
\* DELETE /todos/:id, and a removal yields nothing but such an assignment.
C9_RenumberingAnyOrder ==
    /\ \A id \in Keys(todoStore) : \A r \in Renumberings(todoStore, id) :
          ENABLED (ServeTodoDelete(id) /\ todoStore' = r)
    /\ (last.op = "TodoDelete" /\ last.status = 200) =>
          todoStore \in Renumberings(last.prev, last.id)

\* A removal of "2" from three records swapped the two survivors: the record
\* that was "0" is now "1" and the record that was "1" is now "0".
C9_Witness ==
    /\ last.op = "TodoDelete" /\ last.status = 200 /\ last.id = <<"2">>
    /\ MapLen(last.prev) = 3 /\ WellKeyed(last.prev)
    /\ Content(last.prev.items[<<"0">>]) # Content(last.prev.items[<<"1">>])
    /\ Content(todoStore.items[<<"0">>]) = Content(last.prev.items[<<"1">>])
    /\ Content(todoStore.items[<<"1">>]) = Content(last.prev.items[<<"0">>])

\* The requests whose AddTodo has stored its todo.
Inserted == {p \in Procs : req[p].pc \in {"inserted", "responded", "done"} /\ req[p].data # ZeroTodo}

\* C10: AddTodo's read of the store size and its insert are not atomic: two
\* concurrent POSTs that read the same size are given the same Id, both answer
\* 201, and the store keeps the todo of only one of the requests that read that
\* size; the store grows by one per distinct index read, not by one per request.
C10_LostInsert ==
    running =>
        /\ \A p \in Inserted :
              /\ req[p].data = [req[p].todo EXCEPT !.Id = Itoa(req[p].index)]
              /\ req[p].pc \in {"responded", "done"} => req[p].status = 201
        /\ \A p, q \in Inserted :
              (p # q /\ req[p].index = req[q].index) =>
                  /\ req[p].data.Id = req[q].data.Id
                  /\ todoStore.items[req[p].data.Id] \in
                        {req[r].data : r \in {x \in Inserted : req[x].index = req[p].index}}
        /\ MapLen(todoStore) = MapLen(last.prev) + Cardinality({req[p].index : p \in Inserted})

\* Two POSTs with different todos both answered 201 with the same Id, and the
\* store grew by one record only: one of the two todos is lost.
C10_Witness ==
    \E p, q \in Procs :
        /\ p # q /\ running
        /\ req[p].pc = "done" /\ req[q].pc = "done"
        /\ req[p].status = 201 /\ req[q].status = 201
        /\ req[p].data.Id = req[q].data.Id
        /\ Content(req[p].data) # Content(req[q].data)
        /\ MapLen(todoStore) = MapLen(last.prev) + 1
        /\ req[p].data \notin Records(todoStore)

====
